---- MODULE Spec2Model ----
(***************************************************************************)
(* Model of the astro_api service: the horoscope cache (in memory and on   *)
(* disk), its freshness policy, the two read endpoints, the bulk refresh,  *)
(* the scheduler and the standalone update script.                         *)
(*                                                                         *)
(* Six specifications share the state and the operations:                  *)
(*   Spec        the web process and its requests, seen at one time of day *)
(*               over the days (the refresh the cron job runs is the one   *)
(*               GET /api/update runs);                                    *)
(*   SpecSched   the process and its scheduler over the hours of the days; *)
(*   SpecScript  update_astro_data.py run beside the web process;          *)
(*   SpecDisk    the web process on a disk that refuses the writes of the  *)
(*               cache file until it is repaired;                          *)
(*   SpecConc    two request threads of the web process, step by step;     *)
(*   SpecJob     a request thread and the scheduler's thread, step by step.*)
(* In the first four an operation is one step; in the last two a step is   *)
(* one access to the map, the file or the upstream site.  The upstream     *)
(* site is part of the state: it publishes versions of its pages and is    *)
(* up, down, or broken for the signs from 6 on (errors for 6..10, a page   *)
(* without h3 for 11).                                                     *)
(*                                                                         *)
(* Text is a sequence of one-character strings.  The upper-case letters    *)
(* stand for Traditional Chinese characters, the lower-case ones for their *)
(* Simplified forms; every other character has one form only.              *)
(***************************************************************************)
EXTENDS Integers, Sequences, FiniteSets, TLC

VARIABLES
    cache,          \* astro_api.cache: dict str(num) -> entry, of the running process
    file,           \* astro_cache.json: [exists, corrupt, doc]
    now,            \* the local clock: [day, hour]
    site,           \* the upstream website: [version, mode]
    OPENCC_AVAILABLE, \* astro_api.OPENCC_AVAILABLE
    procUp,         \* the web process is running (create_app has returned)
    sched,          \* the BackgroundScheduler: [startupPending, cronDue]
    startupRuns,    \* bulk refreshes this process ran because it started
    disk,           \* what open(CACHE_FILE, 'w') and json.dump meet
    threads,        \* the threads of the process: where each is in its code
    last            \* what the last operation did and answered

vars == <<cache, file, now, site, OPENCC_AVAILABLE, procUp, sched, startupRuns,
          disk, threads, last>>

----------------------------------------------------------------------------
(* Bounds of the model *)

MaxDay == 1         \* the clock runs over days 0..MaxDay
MaxVersion == 2     \* the upstream site publishes versions 1..MaxVersion

(* Program constants *)

NumSigns == 12      \* range(12)
MaxSign == 11       \* num > 11
MinSign == 0        \* num < 0

CronHours == {8, 20}        \* CronTrigger(hour='8,20')

Signs == 0 .. (NumSigns - 1)

----------------------------------------------------------------------------
(* Text *)

DigitChars == <<"0", "1", "2", "3", "4", "5", "6", "7", "8", "9">>

IsDigit(ch) == \E i \in 1..10 : DigitChars[i] = ch

DigitValue(ch) == (CHOOSE i \in 1..10 : DigitChars[i] = ch) - 1

\* str(num) for a non-negative num
RECURSIVE StrNat(_)
StrNat(n) ==
    IF n < 10 THEN <<DigitChars[n + 1]>>
    ELSE StrNat(n \div 10) \o <<DigitChars[(n % 10) + 1]>>

\* str(num)
Str(n) == IF n < 0 THEN <<"-">> \o StrNat(0 - n) ELSE StrNat(n)

\* value of a non-empty string of digits
RECURSIVE NatOf(_)
NatOf(s) ==
    IF Len(s) = 1 THEN DigitValue(s[1])
    ELSE 10 * NatOf(SubSeq(s, 1, Len(s) - 1)) + DigitValue(s[Len(s)])

AllDigits(s) == Len(s) > 0 /\ \A i \in 1..Len(s) : IsDigit(s[i])

\* int(text) succeeds: an optional sign and digits
IsIntText(s) ==
    \/ AllDigits(s)
    \/ Len(s) > 1 /\ s[1] \in {"-", "+"} /\ AllDigits(Tail(s))

\* int(text)
IntOf(s) ==
    IF s[1] = "-" THEN 0 - NatOf(Tail(s))
    ELSE IF s[1] = "+" THEN NatOf(Tail(s))
    ELSE NatOf(s)

BR == <<"<", "b", "r", ">">>

\* sep.join(parts)
RECURSIVE Join(_, _)
Join(sep, parts) ==
    IF Len(parts) = 0 THEN <<>>
    ELSE IF Len(parts) = 1 THEN parts[1]
    ELSE parts[1] \o sep \o Join(sep, Tail(parts))

\* OpenCC('t2s').convert on one character
T2SChar(ch) ==
    CASE ch = "A" -> "a"
      [] ch = "B" -> "b"
      [] ch = "C" -> "c"
      [] ch = "D" -> "d"
      [] ch = "Z" -> "z"
      [] OTHER -> ch

\* t2s_converter.convert(text)
T2S(text) == [i \in 1..Len(text) |-> T2SChar(text[i])]

\* convert_to_simplified(text)
convert_to_simplified(text) ==
    IF OPENCC_AVAILABLE THEN T2S(text) ELSE text

\* str.lower() on the values of the convert argument the model sends
Lower(s) ==
    CASE s = "TRUE" -> "true"
      [] s = "Yes" -> "yes"
      [] s = "Y" -> "y"
      [] OTHER -> s

\* request.args.get('convert', '').lower() in ['1', 'true', 'yes', 'y']
ConvertFlag(arg) == Lower(arg) \in {"1", "true", "yes", "y"}

----------------------------------------------------------------------------
(* The clock *)

\* datetime.now().strftime("%Y-%m-%d")
Today == now.day

\* datetime.now().isoformat()
Timestamp == <<now.day, now.hour>>

----------------------------------------------------------------------------
(* The upstream website *)

VersionChars == <<"A", "B", "C", "D">>

\* text of the h3 of sign n
PageTitle(n) == <<"Z">> \o Str(n)

\* texts of the p elements of sign n in version v
PageItems(n, v) ==
    LET len == (n + ((v + 1) \div 2)) % 3
    IN  [k \in 1..len |-> <<VersionChars[((v - 1) % 4) + 1], DigitChars[k + 1]>>]

NetError == [status |-> "error", titles |-> <<>>, items |-> <<>>]

\* the answer of requests.get(.../daily_n.php?iAstro=n) followed by
\* raise_for_status and the two selects
Upstream(n) ==
    CASE site.mode = "ok" ->
            [status |-> "ok", titles |-> <<PageTitle(n)>>,
             items |-> PageItems(n, site.version)]
      [] site.mode = "down" -> NetError
      [] site.mode = "partial" ->
            IF n < 6 THEN
                [status |-> "ok", titles |-> <<PageTitle(n)>>,
                 items |-> PageItems(n, site.version)]
            ELSE IF n < MaxSign THEN NetError
            ELSE [status |-> "ok", titles |-> <<>>,
                  items |-> PageItems(n, site.version)]

SiteModes == {"ok", "down", "partial"}

----------------------------------------------------------------------------
(* The cache *)

EmptyDict == [k \in {} |-> 0]

\* a put that drops the other keys
Put_alone(d, k, e) == [x \in {k} |-> e]

Put(d, k, e) == [x \in (DOMAIN d) \cup {k} |-> IF x = k THEN e ELSE d[x]]

NoFile == [exists |-> FALSE, corrupt |-> FALSE, doc |-> EmptyDict]

\* astro_cache.json after a json.dump that ran to its end
Written(c) == [exists |-> TRUE, corrupt |-> FALSE, doc |-> c]

\* astro_cache.json after an open(.., 'w') whose json.dump broke off: the
\* file is there and is no JSON document
Truncated == [exists |-> TRUE, corrupt |-> TRUE, doc |-> EmptyDict]

DiskModes == {"ok", "readonly", "full"}

\* the with block of save_cache on file f: open raises on a disk that cannot
\* be written and leaves f as it is; json.dump raises on a full disk after
\* open has emptied f
WriteFile(c, f) ==
    CASE disk = "ok" -> Written(c)
      [] disk = "readonly" -> f
      [] OTHER -> Truncated

NoEntry == [title |-> <<>>, items |-> <<>>, html |-> <<>>, date |-> -1,
            timestamp |-> <<-1, -1>>]

\* load_cache of astro_api.py, on the module's cache c: json.load raises on
\* a file that is no JSON document
load_cache(c, f) ==
    IF ~f.exists THEN c
    ELSE IF f.corrupt THEN EmptyDict
    ELSE f.doc

\* save_cache of astro_api.py: the error of the with block is logged
save_cache(c, f) == WriteFile(c, f)

\* is_cache_valid that takes an entry of any day
is_cache_valid_any_day(c, num) == Str(num) \in DOMAIN c

\* is_cache_valid(num) on cache c
is_cache_valid(c, num) ==
    /\ Str(num) \in DOMAIN c
    /\ c[Str(num)].date = Today

\* the html field of a new entry
EntryHtml(title, items) ==
    title \o BR \o Join(BR, [i \in 1..Len(items) |-> items[i] \o BR])

\* the result dict of fetch_astro_data built from page r
MakeEntry(r) ==
    [title |-> r.titles[1],
     items |-> r.items,
     html |-> EntryHtml(r.titles[1], r.items),
     date |-> Today,
     timestamp |-> Timestamp]

\* the request and the parse of fetch_astro_data raise
FetchFails(r) == r.status # "ok" \/ r.titles = <<>>

\* the try block of fetch_astro_data, r being the upstream's answer
FetchAndStore(c, num, r) ==
    IF FetchFails(r) THEN
        [cache |-> c, raised |-> TRUE, data |-> NoEntry, reqs |-> <<num>>]
    ELSE
        [cache |-> Put(c, Str(num), MakeEntry(r)), raised |-> FALSE,
         data |-> MakeEntry(r), reqs |-> <<num>>]

\* fetch_astro_data(num, force_update) of astro_api.py on cache c
fetch_astro_data(c, num, force_update) ==
    IF ~force_update /\ is_cache_valid(c, num) THEN
        [cache |-> c, raised |-> FALSE, data |-> c[Str(num)], reqs |-> <<>>]
    ELSE FetchAndStore(c, num, Upstream(num))

\* the comparison that finds a change whatever the page holds
CompareItems_always(cached, num, r) == [result |-> TRUE, reqs |-> <<num>>]

\* the comparison that takes the entry for current when the request fails
CompareItems_keep_on_error(cached, num, r) ==
    IF r.status # "ok" THEN [result |-> FALSE, reqs |-> <<num>>]
    ELSE [result |-> cached.items # r.items, reqs |-> <<num>>]

\* the comparison fetch of needs_update, r being the upstream's answer
CompareItems(cached, num, r) ==
    IF r.status # "ok" THEN [result |-> TRUE, reqs |-> <<num>>]
    ELSE [result |-> cached.items # r.items, reqs |-> <<num>>]

\* needs_update(num) of astro_api.py on cache c
needs_update(c, num) ==
    IF Str(num) \notin DOMAIN c \/ ~is_cache_valid(c, num) THEN
        [result |-> TRUE, reqs |-> <<>>]
    ELSE CompareItems(c[Str(num)], num, Upstream(num))

\* one pass of the loop that drops the entry of a sign whose fetch fails
FetchAllStep_evict_on_failure(c, updated, reqs, nu, fetched) ==
    IF ~nu.result THEN
        [cache |-> c, updated |-> updated, reqs |-> reqs \o nu.reqs]
    ELSE IF fetched.raised THEN
        [cache |-> [k \in (DOMAIN c) \ {Str(fetched.reqs[1])} |-> c[k]],
         updated |-> updated,
         reqs |-> reqs \o nu.reqs \o fetched.reqs]
    ELSE
        [cache |-> fetched.cache, updated |-> TRUE,
         reqs |-> reqs \o nu.reqs \o fetched.reqs]

\* one pass of the loop that fetches whatever needs_update returns
FetchAllStep_always_fetch(c, updated, reqs, nu, fetched) ==
    IF fetched.raised THEN
        [cache |-> c, updated |-> updated,
         reqs |-> reqs \o nu.reqs \o fetched.reqs]
    ELSE
        [cache |-> fetched.cache, updated |-> TRUE,
         reqs |-> reqs \o nu.reqs \o fetched.reqs]

\* one pass of the loop of fetch_all_astro_data: nu is what needs_update(num)
\* returns and fetched what fetch_astro_data(num, force_update=True) does
FetchAllStep(c, updated, reqs, nu, fetched) ==
    IF ~nu.result THEN
        [cache |-> c, updated |-> updated, reqs |-> reqs \o nu.reqs]
    ELSE IF fetched.raised THEN
        [cache |-> c, updated |-> updated,
         reqs |-> reqs \o nu.reqs \o fetched.reqs]
    ELSE
        [cache |-> fetched.cache, updated |-> TRUE,
         reqs |-> reqs \o nu.reqs \o fetched.reqs]

\* the loop that a failed fetch ends
RECURSIVE FetchAllLoop_abort_on_error(_, _)
FetchAllLoop_abort_on_error(st, num) ==
    IF num >= NumSigns THEN st
    ELSE IF needs_update(st.cache, num).result
            /\ fetch_astro_data(st.cache, num, TRUE).raised THEN
        FetchAllStep(st.cache, st.updated, st.reqs,
                     needs_update(st.cache, num),
                     fetch_astro_data(st.cache, num, TRUE))
    ELSE FetchAllLoop_abort_on_error(
             FetchAllStep(st.cache, st.updated, st.reqs,
                          needs_update(st.cache, num),
                          fetch_astro_data(st.cache, num, TRUE)),
             num + 1)

\* the loop of fetch_all_astro_data from sign num on, in state st
RECURSIVE FetchAllLoop(_, _)
FetchAllLoop(st, num) ==
    IF num >= NumSigns THEN st
    ELSE FetchAllLoop(FetchAllStep(st.cache, st.updated, st.reqs,
                                   needs_update(st.cache, num),
                                   fetch_astro_data(st.cache, num, TRUE)),
                      num + 1)

\* the end that saves whether or not an update was made
FetchAllSave_unconditional(st, f) ==
    [cache |-> st.cache, file |-> save_cache(st.cache, f), saves |-> 1,
     reqs |-> st.reqs]

\* the end of fetch_all_astro_data: save if any update was made
FetchAllSave(st, f) ==
    [cache |-> st.cache,
     file |-> IF st.updated THEN save_cache(st.cache, f) ELSE f,
     saves |-> IF st.updated THEN 1 ELSE 0,
     reqs |-> st.reqs]

\* fetch_all_astro_data() on cache c and file f
fetch_all_astro_data(c, f) ==
    FetchAllSave(FetchAllLoop([cache |-> c, updated |-> FALSE, reqs |-> <<>>], 0),
                 f)

----------------------------------------------------------------------------
(* The read endpoints *)

NoJson == [title |-> <<>>, items |-> <<>>, date |-> -1, simplified |-> FALSE]

NoParam == [present |-> FALSE, text |-> <<>>]

\* what an operation reports: the request, the answer, the upstream requests
\* it issued (reqs) and the number of times it wrote the file (saves)
Report(op, param, convert, status, body, json, reqs, saves, warned, exit) ==
    [op |-> op, param |-> param, convert |-> convert, status |-> status,
     body |-> body, json |-> json, reqs |-> reqs, saves |-> saves,
     warned |-> warned, exit |-> exit]

Idle == Report("none", NoParam, FALSE, 0, <<>>, NoJson, <<>>, 0, FALSE, 0)

\* the else branch without the fallback to the cached entry
ReadFetched_no_fallback(c, f, num, fetched) ==
    IF ~fetched.raised THEN
        [cache |-> fetched.cache, file |-> save_cache(fetched.cache, f),
         found |-> TRUE, data |-> fetched.data, reqs |-> fetched.reqs,
         saves |-> 1]
    ELSE
        [cache |-> c, file |-> f, found |-> FALSE, data |-> NoEntry,
         reqs |-> fetched.reqs, saves |-> 0]

\* the else branch in which the entry reaches the map only once it is saved
ReadFetched_store_after_save(c, f, num, fetched) ==
    IF ~fetched.raised THEN
        [cache |-> IF disk = "ok" THEN fetched.cache ELSE c,
         file |-> save_cache(fetched.cache, f),
         found |-> TRUE, data |-> fetched.data, reqs |-> fetched.reqs,
         saves |-> 1]
    ELSE IF Str(num) \in DOMAIN c THEN
        [cache |-> c, file |-> f, found |-> TRUE, data |-> c[Str(num)],
         reqs |-> fetched.reqs, saves |-> 0]
    ELSE
        [cache |-> c, file |-> f, found |-> FALSE, data |-> NoEntry,
         reqs |-> fetched.reqs, saves |-> 0]

\* the else branch of the lookup: fetched is what fetch_astro_data(num) does
ReadFetched(c, f, num, fetched) ==
    IF ~fetched.raised THEN
        [cache |-> fetched.cache, file |-> save_cache(fetched.cache, f),
         found |-> TRUE, data |-> fetched.data, reqs |-> fetched.reqs,
         saves |-> 1]
    ELSE IF Str(num) \in DOMAIN c THEN
        [cache |-> c, file |-> f, found |-> TRUE, data |-> c[Str(num)],
         reqs |-> fetched.reqs, saves |-> 0]
    ELSE
        [cache |-> c, file |-> f, found |-> FALSE, data |-> NoEntry,
         reqs |-> fetched.reqs, saves |-> 0]

\* the lookup that fetches whatever the cache holds
ReadData_always_fetch(c, f, num) ==
    ReadFetched(c, f, num, fetch_astro_data(c, num, TRUE))

\* the cache lookup, fetch, save and fallback shared by astro_api and
\* astro_json_api, for a validated num
ReadData(c, f, num) ==
    IF is_cache_valid(c, num) THEN
        [cache |-> c, file |-> f, found |-> TRUE, data |-> c[Str(num)],
         reqs |-> <<>>, saves |-> 0]
    ELSE ReadFetched(c, f, num, fetch_astro_data(c, num, FALSE))

\* int(request.values['num']) succeeds
NumParses(p) == p.present /\ IsIntText(p.text)

\* the 400 of abort(400, ...) and of the JSON endpoint
BadRequest(op, c, f, p, arg) ==
    [cache |-> c, file |-> f,
     report |-> Report(op, p, ConvertFlag(arg), 400, <<>>, NoJson, <<>>, 0,
                       FALSE, 0)]

\* the response of astro_api once the lookup d is done
HtmlResponse(p, convert_to_simple, d) ==
    IF ~d.found THEN
        [cache |-> d.cache, file |-> d.file,
         report |-> Report("astro_api", p, convert_to_simple, 500, <<>>, NoJson,
                           d.reqs, d.saves, FALSE, 0)]
    ELSE
        [cache |-> d.cache, file |-> d.file,
         report |-> Report("astro_api", p, convert_to_simple, 200,
                           IF convert_to_simple /\ OPENCC_AVAILABLE
                           THEN convert_to_simplified(d.data.html)
                           ELSE d.data.html,
                           NoJson, d.reqs, d.saves,
                           convert_to_simple /\ ~OPENCC_AVAILABLE, 0)]

\* astro_api() for the query ?num=p&convert=arg
astro_api(c, f, p, arg) ==
    IF ~NumParses(p) THEN BadRequest("astro_api", c, f, p, arg)
    ELSE IF IntOf(p.text) > MaxSign \/ IntOf(p.text) < MinSign THEN
        BadRequest("astro_api", c, f, p, arg)
    ELSE HtmlResponse(p, ConvertFlag(arg), ReadData(c, f, IntOf(p.text)))

\* the route /astro/<int:num> matches the path segment: digits only
IntRouteMatches(p) == p.present /\ AllDigits(p.text)

\* response_data that goes by the request alone
JsonData_by_request(data, convert_to_simple) ==
    [title |-> convert_to_simplified(data.title),
     items |-> [i \in 1..Len(data.items) |->
                   convert_to_simplified(data.items[i])],
     date |-> data.date,
     simplified |-> convert_to_simple]

\* response_data of astro_json_api for the entry data
JsonData(data, convert_to_simple) ==
    IF convert_to_simple /\ OPENCC_AVAILABLE THEN
        [title |-> convert_to_simplified(data.title),
         items |-> [i \in 1..Len(data.items) |->
                       convert_to_simplified(data.items[i])],
         date |-> data.date,
         simplified |-> TRUE]
    ELSE
        [title |-> data.title,
         items |-> data.items,
         date |-> data.date,
         simplified |-> FALSE]

\* the response of astro_json_api once the lookup d is done
JsonResponse(p, convert_to_simple, d) ==
    IF ~d.found THEN
        [cache |-> d.cache, file |-> d.file,
         report |-> Report("astro_json_api", p, convert_to_simple, 500, <<>>,
                           NoJson, d.reqs, d.saves, FALSE, 0)]
    ELSE
        [cache |-> d.cache, file |-> d.file,
         report |-> Report("astro_json_api", p, convert_to_simple, 200, <<>>,
                           JsonData(d.data, convert_to_simple), d.reqs, d.saves,
                           FALSE, 0)]

\* astro_json_api(num) for the path /api/astro/p?convert=arg
astro_json_api(c, f, p, arg) ==
    IF ~IntRouteMatches(p) THEN
        [cache |-> c, file |-> f,
         report |-> Report("astro_json_api", p, ConvertFlag(arg), 404, <<>>,
                           NoJson, <<>>, 0, FALSE, 0)]
    ELSE IF ~(MinSign <= NatOf(p.text) /\ NatOf(p.text) <= MaxSign) THEN
        BadRequest("astro_json_api", c, f, p, arg)
    ELSE JsonResponse(p, ConvertFlag(arg), ReadData(c, f, NatOf(p.text)))

\* the report of a bulk refresh r run as op
BulkReport(op, status, r) ==
    [cache |-> r.cache, file |-> r.file,
     report |-> Report(op, NoParam, FALSE, status, <<>>, NoJson, r.reqs, r.saves,
                       FALSE, 0)]

\* the answer that reports an error when the refresh r fetched nothing
StrictReport(r) ==
    BulkReport("manual_update", IF r.saves = 0 THEN 500 ELSE 200, r)

\* manual_update that answers 500 when no sign was fetched
manual_update_strict(c, f) == StrictReport(fetch_all_astro_data(c, f))

\* manual_update()
manual_update(c, f) ==
    BulkReport("manual_update", 200, fetch_all_astro_data(c, f))

----------------------------------------------------------------------------
(* update_astro_data.py, the standalone script *)

\* load_cache() of update_astro_data.py
upd_load_cache(f) == IF f.exists /\ ~f.corrupt THEN f.doc ELSE EmptyDict

\* save_cache(cache) of update_astro_data.py
upd_save_cache(c, f) == WriteFile(c, f)

\* the try block of fetch_astro_data of update_astro_data.py, r being the
\* upstream's answer: None on any error
upd_fetch_result(num, r) ==
    IF FetchFails(r) THEN [none |-> TRUE, data |-> NoEntry, reqs |-> <<num>>]
    ELSE [none |-> FALSE, data |-> MakeEntry(r), reqs |-> <<num>>]

\* fetch_astro_data(num, cache) of update_astro_data.py
upd_fetch_astro_data(num) == upd_fetch_result(num, Upstream(num))

\* needs_update that goes by the date alone
upd_needs_update_by_date(c, num) ==
    IF Str(num) \notin DOMAIN c \/ c[Str(num)].date # Today THEN
        [result |-> TRUE, reqs |-> <<>>]
    ELSE [result |-> FALSE, reqs |-> <<>>]

\* needs_update(num, cache) of update_astro_data.py
upd_needs_update(c, num) ==
    IF Str(num) \notin DOMAIN c \/ c[Str(num)].date # Today THEN
        [result |-> TRUE, reqs |-> <<>>]
    ELSE CompareItems(c[Str(num)], num, Upstream(num))

\* one pass of the loop in which a failed fetch raises out of the loop
UpdateAllStep_raise(c, num, updated, reqs, nu, data) ==
    IF ~nu.result THEN
        [cache |-> c, updated |-> updated, reqs |-> reqs \o nu.reqs,
         escaped |-> "none"]
    ELSE IF data.none THEN
        [cache |-> c, updated |-> updated,
         reqs |-> reqs \o nu.reqs \o data.reqs, escaped |-> "Exception"]
    ELSE
        [cache |-> Put(c, Str(num), data.data), updated |-> TRUE,
         reqs |-> reqs \o nu.reqs \o data.reqs, escaped |-> "none"]

\* one pass of the loop of update_all_astro_data: nu is what
\* needs_update(num, cache) returns and data what fetch_astro_data does
UpdateAllStep(c, num, updated, reqs, nu, data) ==
    IF ~nu.result THEN
        [cache |-> c, updated |-> updated, reqs |-> reqs \o nu.reqs,
         escaped |-> "none"]
    ELSE IF data.none THEN
        [cache |-> c, updated |-> updated,
         reqs |-> reqs \o nu.reqs \o data.reqs, escaped |-> "none"]
    ELSE
        [cache |-> Put(c, Str(num), data.data), updated |-> TRUE,
         reqs |-> reqs \o nu.reqs \o data.reqs, escaped |-> "none"]

\* the loop of update_all_astro_data from sign num on, in state st.  sigint:
\* the user interrupts the script (KeyboardInterrupt, which is no Exception)
\* while it works on sign at.
RECURSIVE UpdateAllLoop(_, _, _, _)
UpdateAllLoop(st, num, sigint, at) ==
    IF num >= NumSigns \/ st.escaped # "none" THEN st
    ELSE IF sigint /\ num = at THEN
        [st EXCEPT !.escaped = "KeyboardInterrupt"]
    ELSE UpdateAllLoop(UpdateAllStep(st.cache, num, st.updated, st.reqs,
                                     upd_needs_update(st.cache, num),
                                     upd_fetch_astro_data(num)),
                       num + 1, sigint, at)

\* the end of update_all_astro_data: save if any update was made
UpdateAllSave(st, f) ==
    [file |-> IF st.escaped = "none" /\ st.updated
              THEN upd_save_cache(st.cache, f) ELSE f,
     saves |-> IF st.escaped = "none" /\ st.updated THEN 1 ELSE 0,
     reqs |-> st.reqs,
     escaped |-> st.escaped]

\* update_all_astro_data()
update_all_astro_data(f, sigint, at) ==
    UpdateAllSave(UpdateAllLoop([cache |-> upd_load_cache(f), updated |-> FALSE,
                                 reqs |-> <<>>, escaped |-> "none"],
                                0, sigint, at),
                  f)

\* the exit status of the script when update_all_astro_data ended as r:
\* sys.exit(1) for an Exception, the interpreter's status for a
\* KeyboardInterrupt
ExitStatus(r) ==
    CASE r.escaped = "none" -> 0
      [] r.escaped = "Exception" -> 1
      [] OTHER -> 130

\* the report of a run of the script that ended as r
ScriptReport(r) ==
    [file |-> r.file,
     report |-> Report("update_script", NoParam, FALSE, 0, <<>>, NoJson, r.reqs,
                       r.saves, FALSE, ExitStatus(r))]

\* __main__ of update_astro_data.py
upd_main(f, sigint, at) == ScriptReport(update_all_astro_data(f, sigint, at))

----------------------------------------------------------------------------
(* The threads of the process: two request threads of the server and the   *)
(* thread of the scheduler, each between two accesses to the map, to the   *)
(* file or to the upstream site.                                           *)

RequestThreads == {"request1", "request2"}

SchedulerThread == "scheduler"

ThreadIds == RequestThreads \cup {SchedulerThread}

\* a thread that runs no handler and no job
IdleThread ==
    [pc |-> "idle", num |-> 0, page |-> NetError, data |-> NoEntry,
     status |-> 0, reqs |-> <<>>, snap |-> EmptyDict, updated |-> FALSE,
     wrote |-> "no"]

NoThreads == [t \in ThreadIds |-> IdleThread]

\* the threads once thread t has assigned cache[str(n)] and is in state rec:
\* the entry another thread had put there is gone
AfterStore(t, n, rec) ==
    [x \in ThreadIds |->
        IF x = t THEN rec
        ELSE IF threads[x].wrote = "last" /\ threads[x].num = n
        THEN [threads[x] EXCEPT !.wrote = "overwritten"]
        ELSE threads[x]]

\* the sum of the lengths of the texts of seq
RECURSIVE SumLen(_)
SumLen(seq) == IF Len(seq) = 0 THEN 0 ELSE Len(seq[1]) + SumLen(Tail(seq))

\* the length of what json.dump writes for the entry e, its punctuation and
\* its dates, which are as long in every entry, left out
EntrySize(e) == Len(e.title) + SumLen(e.items) + Len(e.html)

\* the length of the document of the map d, from sign n on
RECURSIVE DocSizeFrom(_, _)
DocSizeFrom(d, n) ==
    IF n >= NumSigns THEN 0
    ELSE (IF Str(n) \in DOMAIN d THEN 1 + EntrySize(d[Str(n)]) ELSE 0)
         + DocSizeFrom(d, n + 1)

DocSize(d) == DocSizeFrom(d, 0)

\* what the file f holds once a thread has written the document of snap to
\* it from the start: that document, or, when another thread wrote a longer
\* one since this thread opened the file, that document followed by the end
\* of the longer one, which is no JSON document
WriteOver(f, snap) ==
    IF f.exists /\ ~f.corrupt /\ DocSize(f.doc) > DocSize(snap)
    THEN Truncated
    ELSE Written(snap)

\* the handler of thread th ends with status and data
Answer(th, status, data) ==
    [th EXCEPT !.pc = "done", !.status = status, !.data = data]

\* the except branch of the lookup in thread th: the entry of the map, if any
Fallback(th, c) ==
    IF Str(th.num) \in DOMAIN c
    THEN Answer([th EXCEPT !.reqs = <<th.num>>], 200, c[Str(th.num)])
    ELSE Answer([th EXCEPT !.reqs = <<th.num>>], 500, NoEntry)

\* the test of the handler in thread th: is_cache_valid(num), and the
\* answer from the map when it holds
CheckCache(th, c) ==
    IF is_cache_valid(c, th.num) THEN Answer(th, 200, c[Str(th.num)])
    ELSE [th EXCEPT !.pc = "called"]

\* the test of fetch_astro_data(num) in thread th: the entry of the map is
\* returned when it is valid by now
Recheck(th, c) ==
    IF is_cache_valid(c, th.num)
    THEN [th EXCEPT !.pc = "fetched", !.data = c[Str(th.num)]]
    ELSE [th EXCEPT !.pc = "request"]

\* the request that is not sent when another thread has stored a valid
\* entry by now
SendRequest_if_still_stale(th, c, r) ==
    IF is_cache_valid(c, th.num)
    THEN [th EXCEPT !.pc = "fetched", !.data = c[Str(th.num)]]
    ELSE IF FetchFails(r) THEN Fallback(th, c)
    ELSE [th EXCEPT !.pc = "got", !.page = r, !.reqs = <<th.num>>]

\* the request and the parse of fetch_astro_data in thread th, r being the
\* upstream's answer; the handler falls back to the map when they raise
SendRequest(th, c, r) ==
    IF FetchFails(r) THEN Fallback(th, c)
    ELSE [th EXCEPT !.pc = "got", !.page = r, !.reqs = <<th.num>>]

\* thread t, in state th, is through save_cache: the handler answers the
\* entry it fetched, the job of the scheduler ends
Saved(t, th) ==
    IF t = SchedulerThread THEN IdleThread
    ELSE Answer([th EXCEPT !.snap = EmptyDict], 200, th.data)

\* the scheduler's thread after needs_update(num) returned nu
NeedsStep(th, nu) ==
    IF nu.result THEN [th EXCEPT !.pc = "force"]
    ELSE [th EXCEPT !.num = th.num + 1]

\* the request and the parse of fetch_astro_data(num, force_update=True) in
\* the scheduler's thread; the loop goes on to the next sign when they raise
ForceRequest(th, r) ==
    IF FetchFails(r) THEN [th EXCEPT !.pc = "loop", !.num = th.num + 1]
    ELSE [th EXCEPT !.pc = "got", !.page = r]

\* the end of the loop of fetch_all_astro_data in the scheduler's thread
LoopEnd(th) ==
    IF th.updated THEN [th EXCEPT !.pc = "fetched"] ELSE IdleThread

----------------------------------------------------------------------------
(* Requests the model sends *)

NumTexts == {Str(0), Str(11), Str(12), Str(-1), <<"x">>}

NumParams == {NoParam} \cup {[present |-> TRUE, text |-> t] : t \in NumTexts}

\* path segments sent to /api/astro/<num>
JsonParams == {[present |-> TRUE, text |-> t] : t \in NumTexts}

ConvertArgs == {"", "1", "TRUE", "no"}

InterruptSigns == {0, 7}

\* signs the request threads read
ReadSigns == {0, 11}

----------------------------------------------------------------------------
(* The state machine *)

NoJobs == [startupPending |-> FALSE, cronDue |-> FALSE]

Init ==
    /\ cache = EmptyDict
    /\ file = NoFile
    /\ now = [day |-> 0, hour |-> 9]
    /\ site \in {[version |-> 1, mode |-> m] : m \in SiteModes}
    /\ OPENCC_AVAILABLE \in BOOLEAN
    /\ procUp = FALSE
    /\ sched = NoJobs
    /\ startupRuns = 0
    /\ disk = "ok"
    /\ threads = NoThreads
    /\ last = Idle

\* the outcome r of an operation of the web process becomes the state
Apply(r) ==
    /\ cache' = r.cache
    /\ file' = r.file
    /\ last' = r.report

\* the outcome r of a run of the script becomes the state
ApplyScript(r) ==
    /\ file' = r.file
    /\ last' = r.report

\* create_app(): load_cache, fetch_all_astro_data, setup_scheduler
Start ==
    /\ last = Idle
    /\ ~procUp
    /\ Apply(BulkReport("create_app", 0,
                        fetch_all_astro_data(load_cache(EmptyDict, file), file)))
    /\ procUp' = TRUE
    /\ sched' = [startupPending |-> TRUE, cronDue |-> FALSE]
    /\ startupRuns' = 1
    /\ UNCHANGED <<now, site, OPENCC_AVAILABLE, threads, disk>>

\* the scheduler runs the job 'fetch_astro_startup'
StartupJob ==
    /\ last = Idle
    /\ procUp
    /\ sched.startupPending
    /\ Apply(BulkReport("fetch_astro_startup", 0,
                        fetch_all_astro_data(cache, file)))
    /\ sched' = [sched EXCEPT !.startupPending = FALSE]
    /\ startupRuns' = startupRuns + 1
    /\ UNCHANGED <<now, site, OPENCC_AVAILABLE, threads, disk, procUp>>

\* the scheduler runs the job 'fetch_astro_morning_evening'
CronJob ==
    /\ last = Idle
    /\ procUp
    /\ sched.cronDue
    /\ Apply(BulkReport("fetch_astro_morning_evening", 0,
                        fetch_all_astro_data(cache, file)))
    /\ sched' = [sched EXCEPT !.cronDue = FALSE]
    /\ UNCHANGED <<now, site, OPENCC_AVAILABLE, threads, disk, procUp, startupRuns>>

\* the process ends: its memory and its scheduler are gone
Stop ==
    /\ last = Idle
    /\ procUp
    /\ procUp' = FALSE
    /\ cache' = EmptyDict
    /\ sched' = NoJobs
    /\ startupRuns' = 0
    /\ UNCHANGED last
    /\ UNCHANGED <<file, now, site, OPENCC_AVAILABLE, threads, disk>>

\* GET /astro_api
AstroApi ==
    /\ last = Idle
    /\ procUp
    /\ \E p \in NumParams, arg \in ConvertArgs :
          Apply(astro_api(cache, file, p, arg))
    /\ UNCHANGED <<now, site, OPENCC_AVAILABLE, threads, disk, procUp, sched, startupRuns>>

\* GET /api/astro/<num>
AstroJsonApi ==
    /\ last = Idle
    /\ procUp
    /\ \E p \in JsonParams, arg \in ConvertArgs :
          Apply(astro_json_api(cache, file, p, arg))
    /\ UNCHANGED <<now, site, OPENCC_AVAILABLE, threads, disk, procUp, sched, startupRuns>>

\* GET /api/update
ManualUpdate ==
    /\ last = Idle
    /\ procUp
    /\ Apply(manual_update(cache, file))
    /\ UNCHANGED <<now, site, OPENCC_AVAILABLE, threads, disk, procUp, sched, startupRuns>>

\* python update_astro_data.py
UpdateScript ==
    /\ last = Idle
    /\ \E sigint \in BOOLEAN, at \in InterruptSigns :
          ApplyScript(upd_main(file, sigint, at))
    /\ UNCHANGED <<cache, now, site, OPENCC_AVAILABLE, threads, disk, procUp, sched,
                   startupRuns>>

\* the upstream site publishes a new version, goes down or comes back
SiteChange ==
    /\ last = Idle
    /\ \E s \in {[version |-> v, mode |-> m] :
                    v \in {site.version, site.version + 1}, m \in SiteModes} :
          /\ s # site
          /\ s.version <= MaxVersion
          /\ site' = s
    /\ UNCHANGED last
    /\ UNCHANGED <<cache, file, now, OPENCC_AVAILABLE, threads, disk, procUp, sched,
                   startupRuns>>

\* a day passes
NextDay ==
    /\ last = Idle
    /\ now.day < MaxDay
    /\ now' = [now EXCEPT !.day = now.day + 1]
    /\ UNCHANGED last
    /\ UNCHANGED <<cache, file, site, OPENCC_AVAILABLE, threads, disk, procUp, sched,
                   startupRuns>>

\* an hour passes; a running scheduler finds its cron job due at 8 and at 20
Tick ==
    /\ last = Idle
    /\ ~sched.startupPending
    /\ ~sched.cronDue
    /\ now.hour + 1 < 24 \/ now.day < MaxDay
    /\ now' = IF now.hour + 1 < 24
              THEN [now EXCEPT !.hour = now.hour + 1]
              ELSE [day |-> now.day + 1, hour |-> 0]
    /\ sched' = [sched EXCEPT !.cronDue = procUp /\ now'.hour \in CronHours]
    /\ UNCHANGED last
    /\ UNCHANGED <<cache, file, site, OPENCC_AVAILABLE, threads, disk, procUp, startupRuns>>

\* the disk of the cache file can be written again
DiskRepaired ==
    /\ last = Idle
    /\ disk # "ok"
    /\ disk' = "ok"
    /\ UNCHANGED last
    /\ UNCHANGED <<cache, file, now, site, OPENCC_AVAILABLE, threads, procUp, sched,
                   startupRuns>>

\* the report of the last operation has been read
Respond ==
    /\ last # Idle
    /\ last' = Idle
    /\ UNCHANGED <<cache, file, now, site, OPENCC_AVAILABLE, threads, disk, procUp, sched,
                   startupRuns>>

\* what a step of a thread leaves alone
ThreadFrame ==
    UNCHANGED <<now, site, OPENCC_AVAILABLE, procUp, sched, startupRuns, disk,
                last>>

\* a request thread takes a read of a sign: the handler tests the cache
ReadCheck(t) ==
    /\ last = Idle
    /\ procUp
    /\ threads[t].pc = "idle"
    /\ \E n \in ReadSigns :
          threads' = [threads EXCEPT
                        ![t] = CheckCache([IdleThread EXCEPT !.num = n], cache)]
    /\ UNCHANGED <<cache, file>>
    /\ ThreadFrame

\* fetch_astro_data(num) tests the cache again
ReadRecheck(t) ==
    /\ last = Idle
    /\ procUp
    /\ threads[t].pc = "called"
    /\ threads' = [threads EXCEPT ![t] = Recheck(threads[t], cache)]
    /\ UNCHANGED <<cache, file>>
    /\ ThreadFrame

\* fetch_astro_data(num) asks the upstream site and parses the page
ReadRequest(t) ==
    /\ last = Idle
    /\ procUp
    /\ threads[t].pc = "request"
    /\ threads' = [threads EXCEPT
                     ![t] = SendRequest(threads[t], cache,
                                        Upstream(threads[t].num))]
    /\ UNCHANGED <<cache, file>>
    /\ ThreadFrame

\* fetch_astro_data(num) builds the entry and assigns cache[str(num)]
ReadStore(t) ==
    /\ last = Idle
    /\ procUp
    /\ threads[t].pc = "got"
    /\ cache' = FetchAndStore(cache, threads[t].num, threads[t].page).cache
    /\ threads' = AfterStore(t, threads[t].num,
                             [threads[t] EXCEPT
                                !.pc = "fetched",
                                !.data = MakeEntry(threads[t].page),
                                !.page = NetError,
                                !.wrote = "last"])
    /\ UNCHANGED file
    /\ ThreadFrame

\* save_cache: open(CACHE_FILE, 'w') empties the file, or raises
SaveOpen(t) ==
    /\ last = Idle
    /\ procUp
    /\ threads[t].pc = "fetched"
    /\ IF disk = "readonly"
       THEN /\ file' = file
            /\ threads' = [threads EXCEPT ![t] = Saved(t, threads[t])]
       ELSE /\ file' = Truncated
            /\ threads' = [threads EXCEPT ![t].pc = "opened"]
    /\ UNCHANGED cache
    /\ ThreadFrame

\* save_cache: json.dump serialises the map as it is now, or raises
SaveEncode(t) ==
    /\ last = Idle
    /\ procUp
    /\ threads[t].pc = "opened"
    /\ IF disk = "full"
       THEN threads' = [threads EXCEPT ![t] = Saved(t, threads[t])]
       ELSE threads' = [threads EXCEPT ![t].pc = "encoded", ![t].snap = cache]
    /\ UNCHANGED <<cache, file>>
    /\ ThreadFrame

\* save_cache: the with block closes the file and the document reaches it
SaveFlush(t) ==
    /\ last = Idle
    /\ procUp
    /\ threads[t].pc = "encoded"
    /\ file' = WriteOver(file, threads[t].snap)
    /\ threads' = [threads EXCEPT ![t] = Saved(t, threads[t])]
    /\ UNCHANGED cache
    /\ ThreadFrame

\* the answer of a handler has been sent
ReadReturn(t) ==
    /\ last = Idle
    /\ threads[t].pc = "done"
    /\ threads' = [threads EXCEPT ![t] = IdleThread]
    /\ UNCHANGED <<cache, file>>
    /\ ThreadFrame

\* the scheduler runs fetch_all_astro_data in its thread
JobStart ==
    /\ last = Idle
    /\ procUp
    /\ threads[SchedulerThread].pc = "idle"
    /\ threads' = [threads EXCEPT
                     ![SchedulerThread] = [IdleThread EXCEPT !.pc = "loop"]]
    /\ UNCHANGED <<cache, file>>
    /\ ThreadFrame

\* the loop of fetch_all_astro_data calls needs_update(num)
JobNeedsUpdate ==
    /\ last = Idle
    /\ procUp
    /\ threads[SchedulerThread].pc = "loop"
    /\ threads[SchedulerThread].num < NumSigns
    /\ threads' = [threads EXCEPT
                     ![SchedulerThread] =
                        NeedsStep(threads[SchedulerThread],
                                  needs_update(cache,
                                               threads[SchedulerThread].num))]
    /\ UNCHANGED <<cache, file>>
    /\ ThreadFrame

\* the loop calls fetch_astro_data(num, force_update=True): the request
JobFetch ==
    /\ last = Idle
    /\ procUp
    /\ threads[SchedulerThread].pc = "force"
    /\ threads' = [threads EXCEPT
                     ![SchedulerThread] =
                        ForceRequest(threads[SchedulerThread],
                                     Upstream(threads[SchedulerThread].num))]
    /\ UNCHANGED <<cache, file>>
    /\ ThreadFrame

\* fetch_astro_data(num, force_update=True) assigns cache[str(num)]; the
\* loop sets updated and goes on
JobStore ==
    /\ last = Idle
    /\ procUp
    /\ threads[SchedulerThread].pc = "got"
    /\ cache' = FetchAndStore(cache, threads[SchedulerThread].num,
                              threads[SchedulerThread].page).cache
    /\ threads' = AfterStore(SchedulerThread, threads[SchedulerThread].num,
                             [threads[SchedulerThread] EXCEPT
                                !.pc = "loop",
                                !.num = threads[SchedulerThread].num + 1,
                                !.page = NetError,
                                !.updated = TRUE])
    /\ UNCHANGED file
    /\ ThreadFrame

\* the loop is over: save_cache() if any update was made
JobEnd ==
    /\ last = Idle
    /\ procUp
    /\ threads[SchedulerThread].pc = "loop"
    /\ threads[SchedulerThread].num = NumSigns
    /\ threads' = [threads EXCEPT
                     ![SchedulerThread] = LoopEnd(threads[SchedulerThread])]
    /\ UNCHANGED <<cache, file>>
    /\ ThreadFrame

Next ==
    \/ Start
    \/ StartupJob
    \/ Stop
    \/ AstroApi
    \/ AstroJsonApi
    \/ ManualUpdate
    \/ SiteChange
    \/ NextDay
    \/ Respond

\* the web service seen at one time of day, over the days
Spec == Init /\ [][Next]_vars

\* the service over the hours of the day, with its scheduler
NextSched ==
    \/ Start
    \/ StartupJob
    \/ CronJob
    \/ Stop
    \/ Tick
    \/ Respond

SpecSched == Init /\ [][NextSched]_vars

\* the standalone script, run beside the web service
NextScript ==
    \/ UpdateScript
    \/ Start
    \/ Stop
    \/ SiteChange
    \/ NextDay
    \/ Respond

SpecScript == Init /\ [][NextScript]_vars

\* the web service on a disk whose writes may fail
NextDisk ==
    \/ Start
    \/ Stop
    \/ AstroApi
    \/ ManualUpdate
    \/ SiteChange
    \/ NextDay
    \/ DiskRepaired
    \/ Respond

\* the service is installed on a disk that may refuse the writes of the cache
\* file from the start
InitDisk ==
    /\ cache = EmptyDict
    /\ file = NoFile
    /\ now = [day |-> 0, hour |-> 9]
    /\ site \in {[version |-> 1, mode |-> m] : m \in SiteModes}
    /\ OPENCC_AVAILABLE \in BOOLEAN
    /\ procUp = FALSE
    /\ sched = NoJobs
    /\ startupRuns = 0
    /\ disk \in DiskModes
    /\ threads = NoThreads
    /\ last = Idle

SpecDisk == InitDisk /\ [][NextDisk]_vars

\* two request threads of the server read concurrently, within a day
NextConc ==
    \/ Start
    \/ Respond
    \/ SiteChange
    \/ \E t \in RequestThreads :
          \/ ReadCheck(t)
          \/ ReadRecheck(t)
          \/ ReadRequest(t)
          \/ ReadStore(t)
          \/ SaveOpen(t)
          \/ SaveEncode(t)
          \/ SaveFlush(t)
          \/ ReadReturn(t)

SpecConc == Init /\ [][NextConc]_vars

\* the threads in which the job of the scheduler meets a read
JobThreads == {"request1", SchedulerThread}

\* a request thread reads while the scheduler's thread runs the bulk
\* refresh, over the days
NextJob ==
    \/ Start
    \/ Respond
    \/ NextDay
    \/ ReadCheck("request1")
    \/ ReadRecheck("request1")
    \/ ReadRequest("request1")
    \/ ReadStore("request1")
    \/ ReadReturn("request1")
    \/ JobStart
    \/ JobNeedsUpdate
    \/ JobFetch
    \/ JobStore
    \/ JobEnd
    \/ \E t \in JobThreads :
          \/ SaveOpen(t)
          \/ SaveEncode(t)
          \/ SaveFlush(t)

SpecJob == Init /\ [][NextJob]_vars

----------------------------------------------------------------------------
(* Properties *)

\* Every operation starts from a state in which the report of the one before
\* it has been read (last = Idle), so what an operation does to any state it
\* can start from is stated on those states.

\* the web process takes a request
Serving == procUp /\ last = Idle

ReadOps == {"astro_api", "astro_json_api"}

\* the requests for a sign of 0..11 that both endpoints take
SignParams == {p \in JsonParams : IntRouteMatches(p) /\ NatOf(p.text) <= MaxSign}

SignOf(p) == NatOf(p.text)

\* the read endpoint op on cache c and file f
Read(op, c, f, p, arg) ==
    IF op = "astro_api" THEN astro_api(c, f, p, arg)
    ELSE astro_json_api(c, f, p, arg)

\* C1: is_cache_valid(n) holds iff an entry for n exists and its date is
\* today's; it holds right after a successful fetch of n, stays true while
\* the date stays the same and the process runs, and is false for every sign
\* once the clock is in the next day.
C1_ValidToday ==
    /\ [](last = Idle => \A n \in Signs :
            /\ is_cache_valid(cache, n)
                 <=> (Str(n) \in DOMAIN cache /\ cache[Str(n)].date = now.day)
            /\ \A force \in BOOLEAN :
                 ~fetch_astro_data(cache, n, force).raised
                   => is_cache_valid(fetch_astro_data(cache, n, force).cache, n))
    /\ [][\A n \in Signs :
            /\ now'.day # now.day => ~(is_cache_valid(cache, n))'
            /\ (is_cache_valid(cache, n) /\ now'.day = now.day /\ procUp')
                 => (is_cache_valid(cache, n))']_vars

\* a read has just fetched sign 0 with success, and sign 11 holds an entry of
\* an earlier day
C1_Witness ==
    /\ procUp
    /\ last.op \in ReadOps /\ last.status = 200 /\ last.reqs = <<0>>
    /\ is_cache_valid(cache, 0)
    /\ Str(11) \in DOMAIN cache
    /\ cache[Str(11)].date < now.day
    /\ ~is_cache_valid(cache, 11)

\* C2: on both read endpoints, a read of a sign whose entry is valid issues
\* no upstream request, leaves the cache and the file as they are, and
\* answers what the read before it answered.
C2_ReadIdempotent ==
    Serving =>
      \A op \in ReadOps, p \in SignParams, arg \in ConvertArgs :
        LET first == Read(op, cache, file, p, arg)
            second == Read(op, first.cache, first.file, p, arg)
        IN  /\ is_cache_valid(cache, SignOf(p)) =>
                 /\ first.report.reqs = <<>>
                 /\ first.report.saves = 0
                 /\ first.report.status = 200
                 /\ first.cache = cache
                 /\ first.file = file
            /\ is_cache_valid(first.cache, SignOf(p)) =>
                 /\ second.report
                      = [first.report EXCEPT !.reqs = <<>>, !.saves = 0]
                 /\ second.cache = first.cache
                 /\ second.file = first.file

\* a read was answered from a valid entry
C2_Witness ==
    /\ procUp
    /\ last.op \in ReadOps /\ last.status = 200 /\ last.reqs = <<>>
    /\ \E p \in SignParams : last.param = p /\ is_cache_valid(cache, SignOf(p))

\* the content the endpoint op answers for the cached entry e
Served(op, e, arg) ==
    IF op = "astro_api"
    THEN [body |-> IF ConvertFlag(arg) /\ OPENCC_AVAILABLE THEN T2S(e.html)
                   ELSE e.html,
          json |-> NoJson]
    ELSE [body |-> <<>>, json |-> JsonData(e, ConvertFlag(arg))]

\* C3: a read of sign n that finds no valid entry for n issues exactly one
\* upstream request, that for n; when the fetch succeeds it writes the entry
\* of key n and no other, saves the whole map, and the next read of n issues
\* no request; when it fails the cache and the file stay as they are.  From
\* the empty cache the map holds exactly the key n afterwards.
C3_ColdStartRead ==
    Serving =>
      \A op \in ReadOps, p \in SignParams, arg \in ConvertArgs :
        LET n == SignOf(p)
            first == Read(op, cache, file, p, arg)
            second == Read(op, first.cache, first.file, p, arg)
        IN  ~is_cache_valid(cache, n) =>
              /\ first.report.reqs = <<n>>
              /\ ~FetchFails(Upstream(n)) =>
                   /\ first.report.status = 200
                   /\ DOMAIN first.cache = (DOMAIN cache) \cup {Str(n)}
                   /\ \A k \in (DOMAIN cache) \ {Str(n)} :
                         first.cache[k] = cache[k]
                   /\ first.cache[Str(n)] = MakeEntry(Upstream(n))
                   /\ first.file = Written(first.cache)
                   /\ first.report.saves = 1
                   /\ second.report.reqs = <<>>
                   /\ second.cache = first.cache
                   /\ DOMAIN cache = {} => DOMAIN first.cache = {Str(n)}
              /\ FetchFails(Upstream(n)) =>
                   /\ first.cache = cache
                   /\ first.file = file
                   /\ first.report.saves = 0

\* the process started with no cache file and an upstream that was down; the
\* first read fetched one sign and the map, now saved, holds that entry alone
C3_Witness ==
    /\ procUp
    /\ last.op \in ReadOps /\ last.status = 200 /\ last.saves = 1
    /\ \E p \in SignParams :
          /\ last.param = p
          /\ last.reqs = <<SignOf(p)>>
          /\ DOMAIN cache = {Str(SignOf(p))}
    /\ file = Written(cache)

\* C4: on both read endpoints, when the entry of sign n is not valid and the
\* upstream fetch fails, the answer is the cached entry of n if there is one
\* and a 500 if there is none; the cache and the file stay as they are.
C4_StaleFallback ==
    Serving =>
      \A op \in ReadOps, p \in SignParams, arg \in ConvertArgs :
        LET n == SignOf(p)
            r == Read(op, cache, file, p, arg)
        IN  (~is_cache_valid(cache, n) /\ FetchFails(Upstream(n))) =>
              /\ r.cache = cache
              /\ r.file = file
              /\ Str(n) \in DOMAIN cache =>
                   /\ r.report.status = 200
                   /\ r.report.body = Served(op, cache[Str(n)], arg).body
                   /\ r.report.json = Served(op, cache[Str(n)], arg).json
              /\ Str(n) \notin DOMAIN cache =>
                   /\ r.report.status = 500
                   /\ r.report.body = <<>>
                   /\ r.report.json = NoJson

\* a read whose fetch failed was answered with the entry of an earlier day
C4_Witness ==
    /\ procUp
    /\ last.op \in ReadOps /\ last.status = 200 /\ last.saves = 0
    /\ \E p \in SignParams :
          /\ last.param = p
          /\ last.reqs = <<SignOf(p)>>
          /\ FetchFails(Upstream(SignOf(p)))
          /\ Str(SignOf(p)) \in DOMAIN cache
          /\ cache[Str(SignOf(p))].date < now.day
          /\ last.body = Served(last.op, cache[Str(SignOf(p))], "").body

\* the num parameters that are integers outside 0..11
OutOfRangeParams ==
    {p \in NumParams :
        NumParses(p) /\ (IntOf(p.text) < MinSign \/ IntOf(p.text) > MaxSign)}

\* C5: both read endpoints answer 400 to every sign index outside 0..11,
\* without an upstream request and without a write; they take 0 and 11.
C5_RejectOutOfRange ==
    last.op \in ReadOps =>
      /\ last.param \in OutOfRangeParams =>
            (last.status = 400 /\ last.reqs = <<>> /\ last.saves = 0)
      /\ last.param \in SignParams => last.status \notin {400, 404}

\* C6: needs_update(n), of the service and of the script, is true for a sign
\* with no entry, and false for a sign whose entry is valid and whose items
\* are the items of the page that needs_update fetches.
C6_NeedsUpdate ==
    last = Idle => \A n \in Signs :
      LET loaded == upd_load_cache(file)
      IN  /\ Str(n) \notin DOMAIN cache => needs_update(cache, n).result
          /\ Str(n) \notin DOMAIN loaded => upd_needs_update(loaded, n).result
          /\ ( /\ is_cache_valid(cache, n)
               /\ Upstream(n).status = "ok"
               /\ cache[Str(n)].items = Upstream(n).items )
               => needs_update(cache, n) = [result |-> FALSE, reqs |-> <<n>>]
          /\ ( /\ is_cache_valid(loaded, n)
               /\ Upstream(n).status = "ok"
               /\ loaded[Str(n)].items = Upstream(n).items )
               => upd_needs_update(loaded, n)
                    = [result |-> FALSE, reqs |-> <<n>>]

\* the number of requests for sign n in reqs
Requests(reqs, n) == Cardinality({i \in 1..Len(reqs) : reqs[i] = n})

\* a bulk refresh has run that found a sign without entry and a sign whose
\* valid entry has the items of the page: it asked for the latter once
C6_Witness ==
    /\ procUp
    /\ last.op = "manual_update"
    /\ \E n \in Signs : Str(n) \notin DOMAIN cache /\ Requests(last.reqs, n) = 1
    /\ \E n \in Signs :
          /\ is_cache_valid(cache, n)
          /\ Upstream(n).status = "ok"
          /\ Len(cache[Str(n)].items) > 0
          /\ cache[Str(n)].items = Upstream(n).items
          /\ Requests(last.reqs, n) = 1
          /\ ~needs_update(cache, n).result

\* the items, each followed by one <br>
RECURSIVE EachWithBreak(_)
EachWithBreak(items) ==
    IF Len(items) = 0 THEN <<>>
    ELSE items[1] \o BR \o EachWithBreak(Tail(items))

\* C7: the html of every cached entry is its title followed by its items,
\* each item with one <br> after it (the title with or without one), or the
\* title and the items joined by <br>: no two <br> between two items.
C7_HtmlFormat ==
    \A k \in DOMAIN cache :
      \/ cache[k].html = cache[k].title \o BR \o EachWithBreak(cache[k].items)
      \/ cache[k].html = cache[k].title \o EachWithBreak(cache[k].items)
      \/ cache[k].html = Join(BR, <<cache[k].title>> \o cache[k].items)

\* the convert arguments that ask for the conversion, and those that do not
AskArgs == {arg \in ConvertArgs : ConvertFlag(arg)}
PlainArgs == {arg \in ConvertArgs : ~ConvertFlag(arg)}

\* C8: without OpenCC, a read that asks for the conversion answers what the
\* same read without it answers: same status, same html body, same JSON
\* title, items and date, and simplified = false.
C8_ConvertPassThrough ==
    (Serving /\ ~OPENCC_AVAILABLE) =>
      \A op \in ReadOps, p \in SignParams, ask \in AskArgs, plain \in PlainArgs :
        LET converted == Read(op, cache, file, p, ask)
            unconverted == Read(op, cache, file, p, plain)
        IN  /\ converted.report.status = unconverted.report.status
            /\ converted.report.body = unconverted.report.body
            /\ converted.report.json = unconverted.report.json
            /\ converted.report.json.simplified = FALSE
            /\ converted.cache = unconverted.cache
            /\ converted.file = unconverted.file

\* without OpenCC, a read that asked for the conversion was answered with a
\* text that the conversion would have changed
C8_Witness ==
    /\ procUp /\ ~OPENCC_AVAILABLE
    /\ last.op = "astro_api" /\ last.status = 200
    /\ last.convert /\ last.warned
    /\ T2S(last.body) # last.body
    /\ \E p \in SignParams :
          last.param = p /\ last.body = cache[Str(SignOf(p))].html

\* C9: a started process has run exactly one bulk refresh because it
\* started, and the scheduler's job runs at hour 8 and at hour 20 only.
C9_OneStartupRun ==
    /\ (procUp /\ ~sched.startupPending) => startupRuns = 1
    /\ last.op = "fetch_astro_morning_evening" => now.hour \in CronHours

\* C10: the script exits with a status other than 0 only when something
\* escapes update_all_astro_data: when it is not interrupted, it ends with
\* status 0 whatever fails for the signs, all twelve included; interrupted,
\* it ends with another status.
C10_ExitStatus ==
    /\ last = Idle => \A at \in InterruptSigns :
          /\ update_all_astro_data(file, FALSE, at).escaped = "none"
          /\ upd_main(file, FALSE, at).report.exit = 0
          /\ update_all_astro_data(file, TRUE, at).escaped # "none"
          /\ upd_main(file, TRUE, at).report.exit # 0
    /\ last.op = "update_script" => last.exit # 1

\* the script ran to its end with the upstream down: twelve requests, each
\* failed, nothing saved, status 0
C10_Witness ==
    /\ last.op = "update_script"
    /\ site.mode = "down"
    /\ last.reqs = [i \in 1..NumSigns |-> i - 1]
    /\ last.saves = 0
    /\ last.exit = 0

\* C11: when the write of the cache file fails, a read that fetched sign n
\* still stores the entry in the map and answers it, and the next read of n
\* issues no request; a bulk refresh still stores every entry it fetched and
\* GET /api/update still answers 200; the file alone is behind: it does not
\* hold the map, and is what it was when the disk is read-only.
C11_SaveFailureNonFatal ==
    (Serving /\ disk # "ok") =>
      /\ \A op \in ReadOps, p \in SignParams, arg \in ConvertArgs :
            LET n == SignOf(p)
                first == Read(op, cache, file, p, arg)
                second == Read(op, first.cache, first.file, p, arg)
            IN  (~is_cache_valid(cache, n) /\ ~FetchFails(Upstream(n))) =>
                  /\ first.cache = Put(cache, Str(n), MakeEntry(Upstream(n)))
                  /\ first.report.status = 200
                  /\ first.report.body
                       = Served(op, MakeEntry(Upstream(n)), arg).body
                  /\ first.report.json
                       = Served(op, MakeEntry(Upstream(n)), arg).json
                  /\ first.report.saves = 1
                  /\ first.file # Written(first.cache)
                  /\ disk = "readonly" => first.file = file
                  /\ second.report.reqs = <<>>
                  /\ second.report.status = 200
                  /\ second.report.body = first.report.body
                  /\ second.report.json = first.report.json
      /\ LET r == manual_update(cache, file)
         IN  /\ r.report.status = 200
             /\ r.report.saves = 1 => r.file # Written(r.cache)
             /\ disk = "readonly" => r.file = file
             /\ \A n \in Signs :
                   (needs_update(cache, n).result /\ ~FetchFails(Upstream(n))) =>
                     /\ r.report.saves = 1
                     /\ r.cache[Str(n)] = MakeEntry(Upstream(n))
                     /\ fetch_astro_data(r.cache, n, FALSE).reqs = <<>>

\* a read fetched a sign on a disk that refused the write: the map holds the
\* entry that was answered and the file does not
C11_Witness ==
    /\ procUp /\ disk # "ok"
    /\ last.op \in ReadOps /\ last.status = 200 /\ last.saves = 1
    /\ \E p \in SignParams :
          /\ last.param = p
          /\ last.reqs = <<SignOf(p)>>
          /\ is_cache_valid(cache, SignOf(p))
          /\ last.body = Served(last.op, cache[Str(SignOf(p))], "").body
          /\ Len(last.body) > 0
    /\ file # Written(cache)

\* the requests of reqs are in the order of the signs
InOrder(reqs) == \A i \in 1..(Len(reqs) - 1) : reqs[i] <= reqs[i + 1]

\* C12: a run of the bulk refresh, of the service and of the script, works
\* on each of the twelve signs in order whatever fails for the signs before
\* it (each sign is asked for once or twice), and every sign that needed an
\* update and whose fetch succeeded holds the new entry afterwards.
C12_PartialFailureTolerance ==
    last = Idle =>
      LET r == fetch_all_astro_data(cache, file)
          loaded == upd_load_cache(file)
          u == update_all_astro_data(file, FALSE, 0)
      IN  /\ InOrder(r.reqs)
          /\ InOrder(u.reqs)
          /\ u.escaped = "none"
          /\ \A n \in Signs :
                /\ Requests(r.reqs, n) \in {1, 2}
                /\ Requests(u.reqs, n) \in {1, 2}
                /\ (needs_update(cache, n).result /\ ~FetchFails(Upstream(n)))
                     => r.cache[Str(n)] = MakeEntry(Upstream(n))
                /\ (upd_needs_update(loaded, n).result
                      /\ ~FetchFails(Upstream(n)))
                     => /\ u.saves = 1
                        /\ u.file.doc[Str(n)] = MakeEntry(Upstream(n))

\* a bulk refresh met errors for the signs 6 to 10 and a page without title
\* for sign 11: it asked for all twelve signs and stored sign 5
C12_Witness ==
    /\ procUp
    /\ last.op = "manual_update"
    /\ site.mode = "partial"
    /\ \A n \in Signs : Requests(last.reqs, n) >= 1
    /\ \E n \in Signs : FetchFails(Upstream(n)) /\ n < MaxSign
    /\ FetchFails(Upstream(MaxSign))
    /\ cache[Str(5)] = MakeEntry(Upstream(5))
    /\ last.saves = 1

\* the bulk refresh of the service on cache c rewrites an entry
RewritesSome(c) ==
    \E n \in Signs : needs_update(c, n).result /\ ~FetchFails(Upstream(n))

\* the bulk refresh of the script on the loaded map c rewrites an entry
UpdRewritesSome(c) ==
    \E n \in Signs : upd_needs_update(c, n).result /\ ~FetchFails(Upstream(n))

\* C13: a run of the bulk refresh, of the service and of the script, writes
\* the file once, with the map as it is after the loop, when a forced fetch
\* rewrote an entry, and does not write it when none did, every fetch having
\* failed included: then the map and the file are what they were.
C13_SaveOncePerRun ==
    last = Idle =>
      LET r == fetch_all_astro_data(cache, file)
          loaded == upd_load_cache(file)
          u == update_all_astro_data(file, FALSE, 0)
      IN  /\ r.saves = (IF RewritesSome(cache) THEN 1 ELSE 0)
          /\ RewritesSome(cache) <=> r.cache # cache
          /\ r.saves = 1 => r.file = Written(r.cache)
          /\ r.saves = 0 => r.file = file
          /\ u.saves = (IF UpdRewritesSome(loaded) THEN 1 ELSE 0)
          /\ u.saves = 1 =>
                /\ u.file.exists /\ ~u.file.corrupt
                /\ u.file.doc # loaded
                /\ DOMAIN loaded \subseteq DOMAIN u.file.doc
          /\ u.saves = 0 => u.file = file
          /\ (\A n \in Signs : FetchFails(Upstream(n))) =>
                (r.saves = 0 /\ u.saves = 0)

\* a bulk refresh found the entries of the day before and an upstream that
\* was down: twelve failed fetches, no write, the file as it was
C13_Witness ==
    /\ procUp
    /\ last.op = "manual_update"
    /\ site.mode = "down"
    /\ last.reqs = [i \in 1..NumSigns |-> i - 1]
    /\ last.saves = 0
    /\ DOMAIN cache # {}
    /\ file = Written(cache)

\* C14: the bulk refresh leaves the entry of a sign as it is, timestamp
\* included, and asks for the sign once, when the entry is valid and its
\* items are those of the page needs_update fetches; an entry is also left as
\* it is when needs_update asks for an update and the forced fetch fails.
C14_SkipUnchanged ==
    last = Idle =>
      LET r == fetch_all_astro_data(cache, file)
      IN  \A n \in Signs :
            /\ ( /\ is_cache_valid(cache, n)
                 /\ Upstream(n).status = "ok"
                 /\ cache[Str(n)].items = Upstream(n).items )
                 => /\ ~needs_update(cache, n).result
                    /\ r.cache[Str(n)] = cache[Str(n)]
                    /\ Requests(r.reqs, n) = 1
            /\ (Str(n) \in DOMAIN cache /\ FetchFails(Upstream(n)))
                 => r.cache[Str(n)] = cache[Str(n)]
            /\ (Str(n) \notin DOMAIN cache /\ FetchFails(Upstream(n)))
                 => Str(n) \notin DOMAIN r.cache

\* the job of 20:00 found the entries fetched earlier in the day and the
\* same pages: one request for each sign, no write, the timestamps of the
\* morning still there
C14_Witness ==
    /\ procUp
    /\ last.op = "fetch_astro_morning_evening"
    /\ now.hour = 20
    /\ last.reqs = [i \in 1..NumSigns |-> i - 1]
    /\ last.saves = 0
    /\ \A n \in Signs :
          /\ is_cache_valid(cache, n)
          /\ cache[Str(n)].timestamp[2] < now.hour
          /\ cache[Str(n)].items = Upstream(n).items

\* C15: for a sign whose entry is valid, needs_update, of the service and of
\* the script, returns true after one request when that request fails, and
\* the bulk refresh then tries the forced fetch of the sign: two requests for
\* it in the run.  needs_update returns a boolean in every state.
C15_ConservativeOnError ==
    last = Idle =>
      LET r == fetch_all_astro_data(cache, file)
          loaded == upd_load_cache(file)
          u == update_all_astro_data(file, FALSE, 0)
      IN  \A n \in Signs :
            /\ needs_update(cache, n).result \in BOOLEAN
            /\ upd_needs_update(loaded, n).result \in BOOLEAN
            /\ (is_cache_valid(cache, n) /\ Upstream(n).status # "ok") =>
                  /\ needs_update(cache, n) = [result |-> TRUE, reqs |-> <<n>>]
                  /\ Requests(r.reqs, n) = 2
            /\ (is_cache_valid(loaded, n) /\ Upstream(n).status # "ok") =>
                  /\ upd_needs_update(loaded, n)
                       = [result |-> TRUE, reqs |-> <<n>>]
                  /\ Requests(u.reqs, n) = 2

\* a bulk refresh found valid entries and an upstream that was down: it asked
\* twice for each of them and wrote nothing
C15_Witness ==
    /\ procUp
    /\ last.op = "manual_update"
    /\ site.mode = "down"
    /\ last.saves = 0
    /\ \E n \in Signs :
          /\ is_cache_valid(cache, n)
          /\ Requests(last.reqs, n) = 2

\* C16: while the process runs, every step that changes the map keeps every
\* key of it (the other steps leave it whole); the
\* entry of sign n is new or other than it was only when the step asked for
\* n, the fetch of n succeeded and the entry is the one made from that page;
\* the entry of a sign whose fetch fails is what it was.
C16_EntryLifecycle ==
    [][(procUp /\ procUp' /\ cache' # cache) =>
         /\ DOMAIN cache \subseteq DOMAIN cache'
         /\ \A n \in Signs :
               /\ ( /\ Str(n) \in DOMAIN cache'
                    /\ (Str(n) \in DOMAIN cache => cache'[Str(n)] # cache[Str(n)]) )
                    => /\ Requests(last'.reqs, n) >= 1
                       /\ ~FetchFails(Upstream(n))
                       /\ cache'[Str(n)] = MakeEntry(Upstream(n))
               /\ (Str(n) \in DOMAIN cache /\ FetchFails(Upstream(n)))
                    => cache'[Str(n)] = cache[Str(n)]
         /\ DOMAIN cache' \subseteq {Str(n) : n \in Signs}]_vars

\* after a day passed, on a disk that had refused a write, a read of a sign
\* whose fetch failed found the entry of the day before still in the map
C16_Witness ==
    /\ procUp
    /\ last.op \in ReadOps /\ last.saves = 0
    /\ file # Written(cache)
    /\ \E p \in SignParams :
          /\ last.param = p
          /\ last.reqs = <<SignOf(p)>>
          /\ FetchFails(Upstream(SignOf(p)))
          /\ Str(SignOf(p)) \in DOMAIN cache
          /\ cache[Str(SignOf(p))].date < now.day

\* C17: a request thread that found no valid entry for sign n in the handler
\* and in fetch_astro_data sends its own request for n whatever the other
\* thread has stored since, and a thread that got the page of n assigns
\* cache[str(n)] whatever is there; the map holds the entry of the thread
\* that assigned last.
C17_NoCoalescing ==
    /\ [](\A t \in RequestThreads :
            /\ threads[t].wrote = "last"
                 => /\ Str(threads[t].num) \in DOMAIN cache
                    /\ cache[Str(threads[t].num)] = threads[t].data
            /\ threads[t].wrote # "no" => threads[t].reqs = <<threads[t].num>>
            /\ \A u \in RequestThreads \ {t} :
                  (threads[t].num = threads[u].num /\ threads[t].wrote = "last")
                    => threads[u].wrote # "last")
    /\ [][\A t \in RequestThreads :
            /\ (threads[t].pc = "request" /\ threads'[t].pc # "request")
                 => threads'[t].reqs = <<threads[t].num>>
            /\ (threads[t].pc = "got" /\ threads'[t].pc # "got")
                 => /\ threads'[t].wrote = "last"
                    /\ cache'[Str(threads[t].num)] = MakeEntry(threads[t].page)
                    /\ \A u \in RequestThreads \ {t} :
                          (threads[u].num = threads[t].num
                             /\ threads[u].wrote # "no")
                            => threads'[u].wrote = "overwritten"]_vars

\* two reads of one sign have ended: both had found no valid entry, each
\* sent its request and got another version of the page, each stored its
\* entry, and the map holds that of request2, which stored last
C17_Witness ==
    /\ threads["request1"].pc = "done" /\ threads["request2"].pc = "done"
    /\ threads["request1"].num = threads["request2"].num
    /\ threads["request1"].reqs = <<threads["request1"].num>>
    /\ threads["request2"].reqs = <<threads["request2"].num>>
    /\ threads["request1"].wrote = "overwritten"
    /\ threads["request2"].wrote = "last"
    /\ threads["request1"].data # threads["request2"].data
    /\ cache[Str(threads["request2"].num)] = threads["request2"].data

\* C18: from the same file, at the same time and with the same upstream, a
\* run of update_all_astro_data of the script and load_cache followed by
\* fetch_all_astro_data in a new process of the service send the same
\* requests in the same order, write the file as many times and leave the
\* same file.
C18_ScriptEquivalent ==
    last = Idle =>
      LET service == fetch_all_astro_data(load_cache(EmptyDict, file), file)
          script == update_all_astro_data(file, FALSE, 0)
      IN  /\ script.reqs = service.reqs
          /\ script.saves = service.saves
          /\ script.file = service.file
          /\ script.escaped = "none"

\* the script ran on the file of an earlier run while the upstream failed for
\* the signs from 6 on: it compared the entries it had, wrote the file once,
\* and the service would now find, as the script would, nothing to write
C18_Witness ==
    /\ last.op = "update_script"
    /\ last.exit = 0
    /\ last.saves = 1
    /\ site.mode = "partial"
    /\ \E n \in Signs : Requests(last.reqs, n) = 2
    /\ \E n \in Signs : is_cache_valid(file.doc, n)
    /\ fetch_all_astro_data(load_cache(EmptyDict, file), file).saves = 0
    /\ update_all_astro_data(file, FALSE, 0).saves = 0

\* no handler and no job is running
Quiescent == \A t \in ThreadIds : threads[t].pc \in {"idle", "done"}

\* the file holds the map of the process
FileHoldsMap ==
    \/ file = Written(cache)
    \/ file = NoFile /\ cache = EmptyDict

\* C19: in a running process whose reads and bulk refresh interleave, on a
\* disk that takes every write, the file holds the map whenever no handler
\* and no job is running.
C19_FileCatchesUp ==
    (procUp /\ last = Idle /\ disk = "ok" /\ Quiescent) => FileHoldsMap

\* C20: GET /api/update answers once fetch_all_astro_data has worked on all
\* twelve signs, and answers 200 whatever the fetches and the write of the
\* file did, also when every fetch failed and nothing was written.
C20_ManualUpdateSucceeds ==
    /\ last.op = "manual_update" =>
          /\ last.status = 200
          /\ \A n \in Signs : Requests(last.reqs, n) >= 1
          /\ last.saves \in {0, 1}
    /\ Serving =>
          /\ manual_update(cache, file).report.status = 200
          /\ manual_update(cache, file).cache
               = fetch_all_astro_data(cache, file).cache
          /\ manual_update(cache, file).file
               = fetch_all_astro_data(cache, file).file
          /\ (\A n \in Signs : FetchFails(Upstream(n))) =>
                /\ manual_update(cache, file).report.saves = 0
                /\ manual_update(cache, file).file = file
                /\ manual_update(cache, file).cache = cache

\* GET /api/update answered 200 after twelve failed fetches, with a map that
\* holds nothing and no write
C20_Witness ==
    /\ procUp
    /\ last.op = "manual_update"
    /\ last.status = 200
    /\ site.mode = "down"
    /\ last.reqs = [i \in 1..NumSigns |-> i - 1]
    /\ last.saves = 0
    /\ cache = EmptyDict

====
